---------------------------- MODULE Spec2Model ----------------------------
(***************************************************************************)
(* Model of src/lambda_function.py: an AWS Lambda handler that routes an   *)
(* API-Gateway shaped event to CRUD operations on one DynamoDB table keyed *)
(* by user_id.                                                             *)
(*                                                                         *)
(* Python values are represented as follows.                               *)
(*   - a response envelope {'statusCode': s, 'body': json.dumps(d)} is the *)
(*     record [statusCode |-> s, body |-> d]: the body is kept as the JSON *)
(*     document d that the string denotes (an object is a record, an array *)
(*     of users is [array |-> sequence]);                                  *)
(*   - a raised exception is [tag |-> "raise", exc, msg];                  *)
(*   - name and email values are JSON strings (spec section 3).            *)
(* The DynamoDB table is a function from the stored keys to items.  Each   *)
(* storage call is one atomic step that either takes effect and answers,   *)
(* or raises ClientError with no effect.                                   *)
(*                                                                         *)
(* Invocations of lambda_handler share the table and run interleaved: an   *)
(* invocation runs from its entry to its storage call (uuid4 included),    *)
(* waits there while other invocations run, and runs from the answer of    *)
(* the call to its return.  A handler makes at most one storage call and   *)
(* touches nothing shared outside it.                                      *)
(***************************************************************************)
EXTENDS Integers, Sequences, FiniteSets, TLC

\* ------------------------------------------------------------------ bounds

\* Number of user ids uuid.uuid4() hands out before create is cut off.
MaxCreates == 2

\* Number of invocations that may be in flight at once.
NumInv == 2

\* Number of requests the invocations serve in all.
MaxRequests == 3

\* --------------------------------------------------------------------- state

VARIABLES
    table,      \* the DynamoDB table users_info: key -> item
    generated,  \* the ids uuid.uuid4() has returned so far
    pc,         \* per invocation: "idle", or "call" (stopped at its storage call)
    event,      \* per invocation at its storage call: the event it was given
    req,        \* per invocation at its storage call: the call it is about to make
    began,      \* per invocation at its storage call: the ids generated before
                \* it was entered
    last,       \* the invocation that has just returned: its event, its
                \* response and what it did (branch taken, storage outcome,
                \* table before and after its storage call, number of storage
                \* calls, the invocations waiting at theirs), with what the
                \* clients had learnt when its storage call was made
    created,    \* id -> record returned by a 201, until a later 200 update or
                \* 204 delete of that id
    updated,    \* id -> name and email of the last 200 update of that id, until
                \* a later 201 or 204 delete of that id
    present,    \* ids a 201 or a 200 update wrote, until a 204 delete of the id
    deleted,    \* ids a 204 delete removed, until a 201 or a 200 update of the id
    serial,     \* the table of the run that executes the invocations whole,
                \* one after another, in the order of their storage calls
    served      \* the number of requests received so far

vars ==
    <<table, generated, pc, event, req, began, last, created, updated, present, deleted,
      serial, served>>

\* ---------------------------------------------------------------- constants

USERS_PATH == "/users"
HEALTH_PATH == "/health"

\* Python's None, and "nothing here" for the bookkeeping variables.
None == [none |-> TRUE]

\* The message of the botocore ClientError a failing storage call raises.
ClientErrorMsg == "An error occurred (InternalServerError) when calling the operation"

\* ------------------------------------------------------------------- inputs

Methods == {"GET", "POST", "PUT", "DELETE", "PATCH"}

Paths == {"/health", "/users", "/users/x9", "/user"}

\* Ids uuid4 can produce, and ids only a client would put in a path.
UuidPool == {"id-" \o ToString(n) : n \in 1..MaxCreates}

ClientIds == {"x9"}

\* event['pathParameters']: the key absent, null, or a dict with or without
\* the user_id key (whose value may be the empty string).
PathParamsAbsent == [kind |-> "absent", has_id |-> FALSE, user_id |-> ""]

PathParamsNull == [kind |-> "null", has_id |-> FALSE, user_id |-> ""]

PathParamsEmpty == [kind |-> "dict", has_id |-> FALSE, user_id |-> ""]

PathParamsOf(id) == [kind |-> "dict", has_id |-> TRUE, user_id |-> id]

PathParams(ids) ==
    {PathParamsAbsent, PathParamsNull, PathParamsEmpty, PathParamsOf("")}
        \cup {PathParamsOf(id) : id \in ids}

\* event['body']: null or a string.
BodyNull == [kind |-> "null", text |-> ""]

BodyStr(s) == [kind |-> "str", text |-> s]

BodyAna == "{\"name\": \"Ana\", \"email\": \"ana@x.com\"}"

BodyBob == "{\"user_id\": \"x9\", \"name\": \"Bob\", \"email\": \"bob@x.com\"}"

BodyNameOnly == "{\"name\": \"Ana\"}"

BodyEmailOnly == "{\"email\": \"ana@x.com\"}"

BodyList == "[]"

BodyEmptyObject == "{}"

BodyJsonNull == "null"

BodyJsonInt == "5"

BodyJsonBool == "true"

BodyJsonString == "\"name email\""

BodyBad == "{bad"

BodyEmpty == ""

BodyTexts ==
    {BodyAna, BodyBob, BodyNameOnly, BodyEmailOnly, BodyList, BodyEmptyObject,
     BodyJsonNull, BodyJsonInt, BodyJsonString, BodyBad}

Bodies == {BodyNull} \cup {BodyStr(s) : s \in BodyTexts}

\* Well-formed requests for the routes of the API, the reads, updates and
\* deletes all contending for the ids in `ids`.
WellFormed(ids) ==
    {[httpMethod |-> "GET", path |-> "/health", pathParameters |-> PathParamsEmpty,
      body |-> BodyNull]}
    \cup {[httpMethod |-> "POST", path |-> "/users", pathParameters |-> PathParamsEmpty,
           body |-> BodyStr(BodyAna)]}
    \cup {[httpMethod |-> "GET", path |-> "/users", pathParameters |-> PathParamsEmpty,
           body |-> BodyNull]}
    \cup {[httpMethod |-> m, path |-> "/users/" \o id, pathParameters |-> PathParamsOf(id),
           body |-> IF m = "PUT" THEN BodyStr(BodyBob) ELSE BodyNull] :
              m \in {"GET", "PUT", "DELETE"}, id \in ids}

\* Every method on every path, with no path parameter and no body.
AnyRoute ==
    [httpMethod : Methods, path : Paths, pathParameters : {PathParamsEmpty},
     body : {BodyNull}]

\* A create, and an update of a client's id, with every body.
AnyBody ==
    [httpMethod : {"POST"}, path : {"/users"}, pathParameters : {PathParamsEmpty},
     body : Bodies]
    \cup {[httpMethod |-> "PUT", path |-> "/users/" \o id,
           pathParameters |-> PathParamsOf(id), body |-> b] :
              id \in ClientIds, b \in Bodies}

\* A read, an update and a delete with every shape of pathParameters that
\* carries no id; the update and the delete with and without a body.
AnyPathParameters ==
    [httpMethod : {"GET"}, path : {"/users"}, pathParameters : PathParams({}),
     body : {BodyNull}]
    \cup [httpMethod : {"PUT", "DELETE"}, path : {"/users"},
          pathParameters : PathParams({}),
          body : {BodyNull, BodyStr(BodyAna), BodyStr(BodyBad)}]

\* A read of a client's id.
ReadOfClientId ==
    {[httpMethod |-> "GET", path |-> "/users/" \o id, pathParameters |-> PathParamsOf(id),
      body |-> BodyNull] : id \in ClientIds}

\* The events a client can send once the ids in `ids` are known to it.
Events(ids) ==
    WellFormed(ids) \cup AnyRoute \cup AnyBody \cup AnyPathParameters \cup ReadOfClientId

\* ------------------------------------------------------------ Python values

Resp(status, data) == [tag |-> "resp", statusCode |-> status, body |-> data]

Raise(exc, msg) == [tag |-> "raise", exc |-> exc, msg |-> msg]

\* A storage call the handler is about to make on `table`.
Call(handler, op, key, name, email) ==
    [tag |-> "call", handler |-> handler, op |-> op, key |-> key,
     name |-> name, email |-> email]

\* str.startswith
startswith(s, prefix) ==
    /\ Len(s) >= Len(prefix)
    /\ SubSeq(s, 1, Len(prefix)) = prefix

\* A value json.loads returns: its Python type, the keys of a dict (the
\* elements of a list), the name and email of a dict, the text of a str.
Value(type, keys, name, email, str) ==
    [tag |-> "value", type |-> type, keys |-> keys, name |-> name, email |-> email,
     str |-> str]

\* json.loads, given as a table over the texts below (it is not defined on
\* any other text): the value of a valid JSON text, JSONDecodeError for an
\* invalid one.
json_loads(text) ==
    CASE text = BodyAna -> Value("dict", {"name", "email"}, "Ana", "ana@x.com", "")
      [] text = BodyBob -> Value("dict", {"user_id", "name", "email"}, "Bob", "bob@x.com", "")
      [] text = BodyNameOnly -> Value("dict", {"name"}, "Ana", "", "")
      [] text = BodyEmailOnly -> Value("dict", {"email"}, "", "ana@x.com", "")
      [] text = BodyEmptyObject -> Value("dict", {}, "", "", "")
      [] text = BodyList -> Value("list", {}, "", "", "")
      [] text = BodyJsonNull -> Value("NoneType", {}, "", "", "")
      [] text = BodyJsonInt -> Value("int", {}, "", "", "")
      [] text = BodyJsonBool -> Value("bool", {}, "", "", "")
      [] text = BodyJsonString -> Value("str", {}, "", "", "name email")
      [] text = BodyBad ->
           Raise("JSONDecodeError", "Expecting property name enclosed in double quotes")
      [] text = BodyEmpty -> Raise("JSONDecodeError", "Expecting value")

\* json.loads(event['body']): a null body is not a str.
load_body(ev) ==
    IF ev.body.kind = "null"
    THEN Raise("TypeError", "the JSON object must be str, bytes or bytearray, not NoneType")
    ELSE json_loads(ev.body.text)

\* event.get('pathParameters', {}).get('user_id'): the id, None, or the
\* AttributeError of None.get.
get_user_id(ev) ==
    LET path_params == ev.pathParameters IN
    CASE path_params.kind = "null" ->
           Raise("AttributeError", "'NoneType' object has no attribute 'get'")
      [] path_params.kind = "dict" /\ path_params.has_id ->
           [tag |-> "value", user_id |-> path_params.user_id]
      [] OTHER -> [tag |-> "value", user_id |-> ""]


\* ----------------------------------------------------------- response shape

\* success_response(data, status_code)
success_response(data, status_code) == Resp(status_code, data)

\* error_response(status_code, message)
error_response(status_code, message) == Resp(status_code, [error |-> message])

\* The except clause of create_user, get_user, list_all_users, update_user
\* and delete_user: only botocore's errors are caught there.
handler_except(r) ==
    IF r.tag = "raise" /\ r.exc \in {"BotoCoreError", "ClientError"}
    THEN error_response(500, "DynamoDB error: " \o r.msg)
    ELSE r

\* lambda_handler with only its first except clause: any other exception
\* leaves the invocation.
lambda_except_json_only(r) ==
    IF r.tag = "raise" /\ r.exc = "JSONDecodeError"
    THEN error_response(400, "Invalid JSON format")
    ELSE r

\* The except clauses of lambda_handler.
lambda_except(r) ==
    CASE r.tag = "raise" /\ r.exc = "JSONDecodeError" ->
           error_response(400, "Invalid JSON format")
      [] r.tag = "raise" ->
           error_response(500, "Internal Server Error: " \o r.msg)
      [] OTHER -> r

\* ------------------------------------------------------------ the DynamoDB table

\* The three-field item create_user builds.
UserData(user_id, name, email) ==
    [user_id |-> user_id, name |-> name, email |-> email]

\* table.put_item(Item=item): unconditional overwrite under the item's key.
put_item(t, item) ==
    [k \in DOMAIN t \cup {item.user_id} |-> IF k = item.user_id THEN item ELSE t[k]]

\* table.get_item(Key={'user_id': key}).get('Item')
get_item(t, key) == IF key \in DOMAIN t THEN t[key] ELSE None

\* table.update_item(Key, 'SET #name = :name, email = :email'): sets the two
\* attributes of the item under key, creating the item when it is missing.
update_item(t, key, name, email) ==
    [k \in DOMAIN t \cup {key} |->
        CASE k = key /\ key \in DOMAIN t -> [t[key] EXCEPT !.name = name, !.email = email]
          [] k = key -> UserData(key, name, email)
          [] OTHER -> t[k]]

\* A delete_item that removes nothing.
delete_item_noop(t, key) == t

\* table.delete_item(Key={'user_id': key}): no error when the key is missing.
delete_item(t, key) == [k \in DOMAIN t \ {key} |-> t[k]]

\* The orders in which table.scan() may return the items of the keys in S.
ScanOrders(S) ==
    {o \in [1..Cardinality(S) -> S] : \A a, b \in 1..Cardinality(S) : o[a] = o[b] => a = b}

\* table.scan().get('Items', []) when the backend walks the keys in `order`.
scan(t, order) == [n \in 1..Len(order) |-> t[order[n]]]

Outcomes == {"ok", "fail"}

\* One storage call: the table afterwards and what the call returned or raised.
Storage(c, t, outcome, order) ==
    CASE outcome = "fail" ->
           [table |-> t, result |-> Raise("ClientError", ClientErrorMsg)]
      [] c.op = "put_item" ->
           [table |-> put_item(t, UserData(c.key, c.name, c.email)),
            result |-> [tag |-> "ok", item |-> None, items |-> << >>]]
      [] c.op = "get_item" ->
           [table |-> t,
            result |-> [tag |-> "ok", item |-> get_item(t, c.key), items |-> << >>]]
      [] c.op = "scan" ->
           [table |-> t,
            result |-> [tag |-> "ok", item |-> None, items |-> scan(t, order)]]
      [] c.op = "update_item" ->
           [table |-> update_item(t, c.key, c.name, c.email),
            result |-> [tag |-> "ok", item |-> None, items |-> << >>]]
      [] OTHER ->
           [table |-> delete_item(t, c.key),
            result |-> [tag |-> "ok", item |-> None, items |-> << >>]]

\* ------------------------------------------------------------------ handlers
\* Each handler runs up to its storage call (..._pre: a response, an exception
\* or the call to make) and from the call's result to its return (..._post).

\* sub in s, for two str
Contains(s, sub) ==
    \E n \in 1..(Len(s) - Len(sub) + 1) : SubSeq(s, n, n + Len(sub) - 1) = sub

\* key in body, for a body that is a dict (a key), a list (an element) or a
\* str (a substring)
py_in(key, body) ==
    IF body.type = "str" THEN Contains(body.str, key) ELSE key \in body.keys

HasNameAndEmail(body) == py_in("name", body) /\ py_in("email", body)

\* What create_user and update_user do with the parsed body: the membership
\* tests ('in' raises TypeError on None, an int or a bool), the 400, and the
\* subscripts body['name'], body['email'] (TypeError on a str or a list).
\* The messages are CPython 3.11's.
required_fields(body) ==
    CASE body.tag = "raise" -> body
      [] body.type \in {"NoneType", "int", "bool"} ->
           Raise("TypeError", "argument of type '" \o body.type \o "' is not iterable")
      [] ~HasNameAndEmail(body) ->
           error_response(400, "Missing required fields: name, email")
      [] body.type = "str" ->
           Raise("TypeError", "string indices must be integers, not 'str'")
      [] body.type = "list" ->
           Raise("TypeError", "list indices must be integers or slices, not str")
      [] OTHER -> body

create_user_pre(ev, uid) ==
    LET body == required_fields(load_body(ev)) IN
    IF body.tag = "value"
    THEN Call("create_user", "put_item", uid, body.name, body.email)
    ELSE body

create_user_post(c, result) ==
    IF result.tag = "raise"
    THEN handler_except(result)
    ELSE success_response(UserData(c.key, c.name, c.email), 201)

list_all_users_pre == Call("list_all_users", "scan", "", "", "")

list_all_users_post(c, result) ==
    IF result.tag = "raise"
    THEN handler_except(result)
    ELSE success_response([array |-> result.items], 200)

get_user_pre(ev) ==
    LET u == get_user_id(ev) IN
    CASE u.tag = "raise" -> u
      [] u.user_id = "" -> list_all_users_pre
      [] OTHER -> Call("get_user", "get_item", u.user_id, "", "")

\* get_user returning the get_item response instead of its 'Item'.
get_user_post_no_item(c, result) ==
    IF result.tag = "raise"
    THEN handler_except(result)
    ELSE success_response([Item |-> result.item], 200)

get_user_post(c, result) ==
    CASE result.tag = "raise" -> handler_except(result)
      [] result.item = None -> error_response(404, "User not found")
      [] OTHER -> success_response(result.item, 200)

\* update_user passing the email as :name and the name as :email.
update_user_pre_swapped(ev) ==
    LET u == get_user_id(ev) IN
    CASE u.tag = "raise" -> u
      [] u.user_id = "" -> error_response(400, "Missing user ID")
      [] OTHER ->
           LET body == required_fields(load_body(ev)) IN
           CASE body.tag # "value" -> body
             [] OTHER ->
                  Call("update_user", "update_item", u.user_id, body.email, body.name)

\* update_user looking the id up before it calls update_item, and answering
\* 404 when it is missing: a check and an act in two storage calls.
update_user_pre_checked(ev) ==
    LET u == get_user_id(ev) IN
    CASE u.tag = "raise" -> u
      [] u.user_id = "" -> error_response(400, "Missing user ID")
      [] OTHER ->
           LET body == required_fields(load_body(ev)) IN
           CASE body.tag # "value" -> body
             [] u.user_id \notin DOMAIN table ->
                  error_response(404, "User not found")
             [] OTHER ->
                  Call("update_user", "update_item", u.user_id, body.name, body.email)

update_user_pre(ev) ==
    LET u == get_user_id(ev) IN
    CASE u.tag = "raise" -> u
      [] u.user_id = "" -> error_response(400, "Missing user ID")
      [] OTHER ->
           LET body == required_fields(load_body(ev)) IN
           CASE body.tag # "value" -> body
             [] OTHER ->
                  Call("update_user", "update_item", u.user_id, body.name, body.email)

update_user_post(c, result) ==
    IF result.tag = "raise"
    THEN handler_except(result)
    ELSE success_response([message |-> "User updated successfully"], 200)

delete_user_pre(ev) ==
    LET u == get_user_id(ev) IN
    CASE u.tag = "raise" -> u
      [] u.user_id = "" -> error_response(400, "Missing user ID")
      [] OTHER -> Call("delete_user", "delete_item", u.user_id, "", "")

delete_user_post(c, result) ==
    IF result.tag = "raise"
    THEN handler_except(result)
    ELSE success_response(
             [message |-> "User " \o c.key \o " deleted successfully"], 204)

\* ------------------------------------------------------------ lambda_handler

\* The chain with the create row matching on the prefix, like the rows below it.
route_post_prefix(ev) ==
    LET http_method == ev.httpMethod
        path == ev.path
    IN
    CASE http_method = "GET" /\ path = HEALTH_PATH -> "health"
      [] http_method = "POST" /\ startswith(path, USERS_PATH) -> "create_user"
      [] http_method = "GET" /\ startswith(path, USERS_PATH) -> "get_user"
      [] http_method = "PUT" /\ startswith(path, USERS_PATH) -> "update_user"
      [] http_method = "DELETE" /\ startswith(path, USERS_PATH) -> "delete_user"
      [] OTHER -> "none"

\* The if/elif chain of lambda_handler: the branch an event takes.
route(ev) ==
    LET http_method == ev.httpMethod
        path == ev.path
    IN
    CASE http_method = "GET" /\ path = HEALTH_PATH -> "health"
      [] http_method = "POST" /\ path = USERS_PATH -> "create_user"
      [] http_method = "GET" /\ startswith(path, USERS_PATH) -> "get_user"
      [] http_method = "PUT" /\ startswith(path, USERS_PATH) -> "update_user"
      [] http_method = "DELETE" /\ startswith(path, USERS_PATH) -> "delete_user"
      [] OTHER -> "none"

\* The event reaches str(uuid.uuid4()) in create_user: its body parsed and
\* passed the membership tests.  A str or list body naming both fields takes
\* an id and fails at the subscript after it.
calls_uuid4(ev) ==
    /\ route(ev) = "create_user"
    /\ LET body == load_body(ev) IN
       /\ body.tag = "value"
       /\ body.type \notin {"NoneType", "int", "bool"}
       /\ HasNameAndEmail(body)

\* lambda_handler up to the storage call of the handler it dispatches to.
lambda_pre(ev, uid) ==
    LET r == route(ev) IN
    CASE r = "health" -> success_response([message |-> "API is up and running"], 200)
      [] r = "create_user" -> create_user_pre(ev, uid)
      [] r = "get_user" -> get_user_pre(ev)
      [] r = "update_user" -> update_user_pre(ev)
      [] r = "delete_user" -> delete_user_pre(ev)
      [] OTHER -> error_response(405, "Method Not Allowed")

\* The rest of the dispatched handler, from its storage call's result.
lambda_post(c, result) ==
    CASE c.handler = "create_user" -> create_user_post(c, result)
      [] c.handler = "get_user" -> get_user_post(c, result)
      [] c.handler = "list_all_users" -> list_all_users_post(c, result)
      [] c.handler = "update_user" -> update_user_post(c, result)
      [] OTHER -> delete_user_post(c, result)

\* ------------------------------------------------------------- initial state

Inv == 1..NumInv

EmptyTable == [k \in {} |-> None]

NoLast ==
    [inv |-> 0, event |-> None, resp |-> None, handler |-> "", outcome |-> "",
     before |-> EmptyTable, after |-> EmptyTable, genBefore |-> {}, calls |-> 0,
     waiting |-> {}, created |-> EmptyTable, updated |-> EmptyTable, present |-> {},
     deleted |-> {}, serial |-> None]

Init ==
    /\ table = EmptyTable
    /\ generated = {}
    /\ pc = [i \in Inv |-> "idle"]
    /\ event = [i \in Inv |-> None]
    /\ req = [i \in Inv |-> None]
    /\ began = [i \in Inv |-> {}]
    /\ last = NoLast
    /\ created = EmptyTable
    /\ updated = EmptyTable
    /\ present = {}
    /\ deleted = {}
    /\ serial = EmptyTable
    /\ served = 0

\* NoUuid stands for "uuid4 was not called".
NoUuid == ""

\* An id generator that may return an id again.
uuid4_repeating == UuidPool

\* uuid.uuid4(): an id no earlier call returned.  The ids are named in the
\* order they are generated; none is left once MaxCreates were.
uuid4 == {"id-" \o ToString(Cardinality(generated) + 1)} \cap UuidPool

Without(f, k) == [x \in DOMAIN f \ {k} |-> f[x]]

With(f, k, v) == [x \in DOMAIN f \cup {k} |-> IF x = k THEN v ELSE f[x]]

\* What the clients learn from the request c and its response r.
Observe(c, r) ==
    CASE c.handler = "create_user" /\ r.tag = "resp" /\ r.statusCode = 201 ->
           /\ created' = With(created, r.body.user_id, r.body)
           /\ present' = present \cup {r.body.user_id}
           /\ updated' = Without(updated, r.body.user_id)
           /\ deleted' = deleted \ {r.body.user_id}
      [] c.handler = "update_user" /\ r.tag = "resp" /\ r.statusCode = 200 ->
           /\ created' = Without(created, c.key)
           /\ updated' = With(updated, c.key, [name |-> c.name, email |-> c.email])
           /\ present' = present \cup {c.key}
           /\ deleted' = deleted \ {c.key}
      [] c.handler = "delete_user" /\ r.tag = "resp" /\ r.statusCode = 204 ->
           /\ created' = Without(created, c.key)
           /\ updated' = Without(updated, c.key)
           /\ present' = present \ {c.key}
           /\ deleted' = deleted \cup {c.key}
      [] OTHER -> UNCHANGED <<created, updated, present, deleted>>

\* lambda_handler(ev) run whole on table t, its storage call answering
\* `outcome` (scan in `order`): the table afterwards and the response.
lambda_handler(ev, uid, t, outcome, order) ==
    LET p == lambda_pre(ev, uid) IN
    IF p.tag = "call"
    THEN LET s == Storage(p, t, outcome, order) IN
         [table |-> s.table, resp |-> lambda_except(lambda_post(p, s.result))]
    ELSE [table |-> t, resp |-> lambda_except(p)]

\* ------------------------------------------------------------------- actions

\* Invocation i, given ev, returns p without a storage call.
Finish(i, ev, p) ==
    /\ last' = [inv |-> i, event |-> ev, resp |-> lambda_except(p),
                handler |-> route(ev), outcome |-> "", before |-> table,
                after |-> table, genBefore |-> generated, calls |-> 0,
                waiting |-> {j \in Inv : pc[j] = "call"},
                created |-> created, updated |-> updated, present |-> present,
                deleted |-> deleted,
                serial |-> lambda_handler(ev, NoUuid, serial, "ok", << >>).resp]
    /\ UNCHANGED <<table, pc, event, req, began, created, updated, present, deleted,
                   serial>>

\* lambda_handler is entered with an event and runs to its storage call, or
\* to its return when it makes none.  The invocations are interchangeable:
\* the event is given to the first idle one.
Start(i) ==
    /\ last = NoLast
    /\ pc[i] = "idle"
    /\ \A j \in 1..(i - 1) : pc[j] # "idle"
    /\ served < MaxRequests
    /\ served' = served + 1
    /\ \E ev \in Events(generated) :
       \E uid \in uuid4 \cup {NoUuid} :
          LET p == lambda_pre(ev, uid) IN
          /\ (uid # NoUuid) <=> calls_uuid4(ev)
          /\ generated' = IF uid # NoUuid THEN generated \cup {uid} ELSE generated
          /\ IF p.tag = "call"
             THEN /\ pc' = [pc EXCEPT ![i] = "call"]
                  /\ event' = [event EXCEPT ![i] = ev]
                  /\ req' = [req EXCEPT ![i] = p]
                  /\ began' = [began EXCEPT ![i] = generated]
                  /\ UNCHANGED <<table, last, created, updated, present, deleted, serial>>
             ELSE Finish(i, ev, p)

\* The storage call invocation i stopped at is made and answered, and the
\* rest of its handler runs to the return of lambda_handler.
Backend(i) ==
    /\ last = NoLast
    /\ pc[i] = "call"
    /\ \E outcome \in Outcomes :
       \E order \in IF req[i].op = "scan" /\ outcome = "ok"
                    THEN ScanOrders(DOMAIN table) ELSE {<< >>} :
          LET c == req[i]
              s == Storage(c, table, outcome, order)
              r == lambda_except(lambda_post(c, s.result))
              whole == lambda_handler(event[i],
                                      IF c.op = "put_item" THEN c.key ELSE NoUuid,
                                      serial, outcome, order)
          IN
          /\ table' = s.table
          /\ serial' = whole.table
          /\ last' = [inv |-> i, event |-> event[i], resp |-> r,
                      handler |-> c.handler, outcome |-> outcome, before |-> table,
                      after |-> s.table, genBefore |-> began[i], calls |-> 1,
                      waiting |-> {j \in Inv \ {i} : pc[j] = "call"},
                      created |-> created, updated |-> updated, present |-> present,
                      deleted |-> deleted, serial |-> whole.resp]
          /\ Observe(c, r)
    /\ pc' = [pc EXCEPT ![i] = "idle"]
    /\ event' = [event EXCEPT ![i] = None]
    /\ req' = [req EXCEPT ![i] = None]
    /\ began' = [began EXCEPT ![i] = {}]
    /\ UNCHANGED <<generated, served>>

\* The response of the invocation that has just returned is delivered.  It is
\* delivered before the next step is taken: the return touches nothing a
\* handler reads or writes, so it may be moved before any step that follows it.
Return ==
    /\ last # NoLast
    /\ last' = NoLast
    /\ UNCHANGED <<table, generated, pc, event, req, began, created, updated, present,
                   deleted, serial, served>>

\* Invocations in flight together, interleaved at their storage calls.
Next ==
    \/ \E i \in Inv : Start(i) \/ Backend(i)
    \/ Return

Spec == Init /\ [][Next]_vars

\* ------------------------------------------------------------------- claims
\* The claims are read on the invocation that returned last; "before",
\* "after" and "since" are in the order of the storage calls.

\* An invocation has returned; what it was asked, and what it answered.
Done == last.inv # 0

Method == last.event.httpMethod

Path == last.event.path

\* The id the event carries in pathParameters, "" when it carries none.
EventId ==
    IF last.event.pathParameters.kind = "dict" /\ last.event.pathParameters.has_id
    THEN last.event.pathParameters.user_id
    ELSE ""

StorageOk == last.outcome = "ok"

Answered(status, data) ==
    /\ last.resp.tag = "resp"
    /\ last.resp.statusCode = status
    /\ last.resp.body = data

\* The table after the storage call differs from the table before it at most
\* under key k.
OnlyKeyTouched(k) ==
    /\ DOMAIN last.after \ {k} = DOMAIN last.before \ {k}
    /\ \A x \in DOMAIN last.before \ {k} : last.after[x] = last.before[x]

\* C1: the (method, path) of an event selects the handler by the first
\* matching row of the dispatch table; no row matching, the answer is 405
\* {"error": "Method Not Allowed"} and the table is left as it was.
C1_DispatchTable ==
    Done =>
        CASE Method = "GET" /\ Path = "/health" ->
               /\ last.handler = "health"
               /\ Answered(200, [message |-> "API is up and running"])
          [] Method = "POST" /\ Path = "/users" ->
               last.handler = "create_user"
          [] Method = "GET" /\ startswith(Path, "/users") ->
               last.handler \in {"get_user", "list_all_users"}
          [] Method = "PUT" /\ startswith(Path, "/users") ->
               last.handler = "update_user"
          [] Method = "DELETE" /\ startswith(Path, "/users") ->
               last.handler = "delete_user"
          [] OTHER ->
               /\ last.handler = "none"
               /\ Answered(405, [error |-> "Method Not Allowed"])
               /\ last.calls = 0
               /\ last.after = last.before

\* A POST to a path under /users other than /users itself was answered 405
\* while another invocation waited at its storage call.
C1_Witness ==
    /\ Done
    /\ Method = "POST"
    /\ Path = "/users/x9"
    /\ Answered(405, [error |-> "Method Not Allowed"])
    /\ last.waiting # {}

\* The body of the event is a JSON object with both name and email.
CarriesNameAndEmail ==
    /\ last.event.body.kind = "str"
    /\ last.event.body.text \in {BodyAna, BodyBob}

BodyName == IF last.event.body.text = BodyAna THEN "Ana" ELSE "Bob"

BodyEmail == IF last.event.body.text = BodyAna THEN "ana@x.com" ELSE "bob@x.com"

\* C2: a POST /users whose body carries name and email, its put_item not
\* failing, is answered 201 with the supplied name and email and a non-empty
\* user_id that no create entered earlier generated and no other invocation
\* holds; the table then holds exactly that three-field record under that id
\* and every other record as before.
C2_CreateReturnsNewRecord ==
    (/\ Done
     /\ Method = "POST"
     /\ Path = "/users"
     /\ CarriesNameAndEmail
     /\ StorageOk)
    =>
    /\ last.resp.tag = "resp"
    /\ last.resp.statusCode = 201
    /\ DOMAIN last.resp.body = {"user_id", "name", "email"}
    /\ last.resp.body.name = BodyName
    /\ last.resp.body.email = BodyEmail
    /\ last.resp.body.user_id # ""
    /\ last.resp.body.user_id \notin last.genBefore
    /\ last.resp.body.user_id \notin DOMAIN last.created
    /\ \A j \in Inv : (pc[j] = "call" /\ req[j].op = "put_item")
                         => req[j].key # last.resp.body.user_id
    /\ last.resp.body.user_id \in DOMAIN last.after
    /\ last.after[last.resp.body.user_id] = last.resp.body
    /\ OnlyKeyTouched(last.resp.body.user_id)

\* A second create was answered 201, the body of the request carrying a
\* user_id of its own.
C2_Witness ==
    /\ Done
    /\ Method = "POST"
    /\ Path = "/users"
    /\ last.event.body.text = BodyBob
    /\ Answered(201, UserData(last.resp.body.user_id, "Bob", "bob@x.com"))
    /\ last.genBefore # {}
    /\ DOMAIN last.before # {}

\* The event asks for the single user EventId.
FetchesOne ==
    /\ Method = "GET"
    /\ startswith(Path, "/users")
    /\ EventId # ""

\* C3: a GET of an id that a create returned, with no update or delete of that
\* id since and the get_item not failing, is answered 200 with the record the
\* create returned.
C3_CreateThenFetch ==
    (/\ Done
     /\ FetchesOne
     /\ StorageOk
     /\ EventId \in DOMAIN last.created)
    => Answered(200, last.created[EventId])

\* A created user was fetched while the table held another user too.
C3_Witness ==
    /\ Done
    /\ FetchesOne
    /\ EventId \in DOMAIN last.created
    /\ Answered(200, last.created[EventId])
    /\ Cardinality(DOMAIN last.before) > 1

\* The event is a GET of the bare collection: path /users and no user_id in
\* pathParameters (null, absent, or a dict without the key).
ListsAll ==
    /\ Method = "GET"
    /\ Path = "/users"
    /\ ~(last.event.pathParameters.kind = "dict" /\ last.event.pathParameters.has_id)

\* The number of entries of the array `items` whose user_id is k.
Occurrences(items, k) == Cardinality({n \in DOMAIN items : items[n].user_id = k})

\* C4: a GET of the bare collection path with no user_id (pathParameters
\* null, absent or lacking user_id), its scan not failing, is answered 200
\* with a list holding every created and not since deleted user exactly once.
C4_ListHoldsEveryUser ==
    (/\ Done
     /\ ListsAll
     /\ last.outcome # "fail")
    =>
    /\ last.resp.tag = "resp"
    /\ last.resp.statusCode = 200
    /\ DOMAIN last.resp.body = {"array"}
    /\ \A k \in last.present \cap generated : Occurrences(last.resp.body.array, k) = 1

\* The event is a DELETE that carries the id EventId.
DeletesOne ==
    /\ Method = "DELETE"
    /\ startswith(Path, "/users")
    /\ EventId # ""

\* C5: storage calls not failing, a GET of an id that was deleted and not
\* written since, or never written, is answered 404 {"error": "User not
\* found"}; a DELETE is answered 204 with a confirmation message whether or
\* not the id is in the table, removes the record under its id, leaves every
\* other record as it was and leaves a table without the id unchanged.
C5_DeleteThenFetch ==
    /\ (/\ Done
        /\ FetchesOne
        /\ StorageOk
        /\ EventId \notin last.present)
       => Answered(404, [error |-> "User not found"])
    /\ (/\ Done
        /\ DeletesOne
        /\ StorageOk)
       =>
       /\ Answered(204, [message |-> "User " \o EventId \o " deleted successfully"])
       /\ EventId \notin DOMAIN last.after
       /\ OnlyKeyTouched(EventId)
       /\ EventId \notin DOMAIN last.before => last.after = last.before

\* A user that was created and then deleted was fetched and answered 404.
C5_Witness ==
    /\ Done
    /\ FetchesOne
    /\ EventId \in generated
    /\ EventId \in last.deleted
    /\ Answered(404, [error |-> "User not found"])

\* A second delete of an id was answered 204 and changed nothing.
C5_SecondDelete ==
    /\ Done
    /\ DeletesOne
    /\ StorageOk
    /\ EventId \in last.deleted
    /\ EventId \notin DOMAIN last.before
    /\ last.after = last.before

\* The event is a PUT that carries the id EventId.
UpdatesOne ==
    /\ Method = "PUT"
    /\ startswith(Path, "/users")
    /\ EventId # ""

\* C6: storage calls not failing, a PUT with an id and a body carrying name
\* and email is answered 200 {"message": "User updated successfully"} whether
\* or not the id exists, after which the record under the id has that id, name
\* and email and every other record is as before; a table that already holds
\* that record is left unchanged (the update applied twice is the update
\* applied once); a following GET of the id returns that id, name and email.
C6_UpdateThenFetch ==
    /\ (/\ Done
        /\ UpdatesOne
        /\ CarriesNameAndEmail
        /\ StorageOk)
       =>
       /\ Answered(200, [message |-> "User updated successfully"])
       /\ EventId \in DOMAIN last.after
       /\ last.after[EventId] = UserData(EventId, BodyName, BodyEmail)
       /\ OnlyKeyTouched(EventId)
       /\ (/\ EventId \in DOMAIN last.before
           /\ last.before[EventId] = UserData(EventId, BodyName, BodyEmail))
          => last.after = last.before
    /\ (/\ Done
        /\ FetchesOne
        /\ StorageOk
        /\ EventId \in DOMAIN last.updated)
       => Answered(200, UserData(EventId, last.updated[EventId].name,
                                 last.updated[EventId].email))

\* An id that was never created was updated, and then fetched with the name
\* and email of the update.
C6_Witness ==
    /\ Done
    /\ FetchesOne
    /\ EventId \in DOMAIN last.updated
    /\ EventId \notin generated
    /\ Answered(200, UserData(EventId, "Bob", "bob@x.com"))

\* The handler of the event parses the body: create, and update with an id.
ParsesBody ==
    \/ Method = "POST" /\ Path = "/users"
    \/ UpdatesOne

\* The body is null, or a JSON text whose value is no object with both a
\* name and an email.
LacksNameOrEmail ==
    \/ last.event.body.kind = "null"
    \/ /\ last.event.body.kind = "str"
       /\ last.event.body.text \in
             {BodyNameOnly, BodyEmailOnly, BodyEmptyObject, BodyList, BodyJsonNull,
              BodyJsonInt, BodyJsonString}

\* C7: a create, or an update with an id, whose body lacks name or email is
\* answered 400 {"error": "Missing required fields: name, email"} for every
\* body the event format allows, without a storage call and with the table
\* unchanged.
C7_MissingFieldsRejected ==
    (/\ Done
     /\ ParsesBody
     /\ LacksNameOrEmail)
    =>
    /\ Answered(400, [error |-> "Missing required fields: name, email"])
    /\ last.calls = 0
    /\ last.after = last.before

\* C8: a PUT or DELETE routed to update or delete with no user_id in
\* pathParameters (null, absent, empty, or without the key) is answered 400
\* {"error": "Missing user ID"} without a storage call and with the table
\* unchanged, whatever the body.
C8_MissingUserIdRejected ==
    (/\ Done
     /\ Method \in {"PUT", "DELETE"}
     /\ startswith(Path, "/users")
     /\ EventId = "")
    =>
    /\ Answered(400, [error |-> "Missing user ID"])
    /\ last.calls = 0
    /\ last.after = last.before

\* The handler of the event reads pathParameters: read, update and delete.
ReadsPathParameters ==
    /\ Method \in {"GET", "PUT", "DELETE"}
    /\ startswith(Path, "/users")

BodyTextIs(text) == last.event.body.kind = "str" /\ last.event.body.text = text

InternalServerError(details) ==
    /\ Answered(500, [error |-> "Internal Server Error: " \o details])
    /\ last.calls = 0
    /\ last.after = last.before

\* C9: every invocation returns a response envelope.  A failed storage call
\* is answered 500 'DynamoDB error: <details>' after that one call and with
\* the table unchanged; a body that fails to parse as JSON is answered 400
\* 'Invalid JSON format'; any other fault (None for pathParameters, None for
\* the body, a body whose JSON value is null, a number or a string naming
\* both fields) is answered 500 'Internal Server Error: <details>'; every
\* answer of status 400 and above has the shape {"error": <message>}.
C9_ErrorTranslation ==
    Done =>
        /\ last.resp.tag = "resp"
        /\ last.resp.statusCode \in {200, 201, 204, 400, 404, 405, 500}
        /\ last.resp.statusCode >= 400 => DOMAIN last.resp.body = {"error"}
        /\ last.calls <= 1
        /\ last.outcome = "fail" =>
              /\ Answered(500, [error |-> "DynamoDB error: " \o ClientErrorMsg])
              /\ last.calls = 1
              /\ last.after = last.before
        /\ (ParsesBody /\ BodyTextIs(BodyBad)) =>
              /\ Answered(400, [error |-> "Invalid JSON format"])
              /\ last.calls = 0
              /\ last.after = last.before
        /\ (ReadsPathParameters /\ last.event.pathParameters.kind = "null") =>
              InternalServerError("'NoneType' object has no attribute 'get'")
        /\ (ParsesBody /\ last.event.body.kind = "null") =>
              InternalServerError(
                  "the JSON object must be str, bytes or bytearray, not NoneType")
        /\ (ParsesBody /\ BodyTextIs(BodyJsonNull)) =>
              InternalServerError("argument of type 'NoneType' is not iterable")
        /\ (ParsesBody /\ BodyTextIs(BodyJsonInt)) =>
              InternalServerError("argument of type 'int' is not iterable")
        /\ (ParsesBody /\ BodyTextIs(BodyJsonString)) =>
              InternalServerError("string indices must be integers, not 'str'")

\* The put_item of a create failed while the table held a user.
C9_Witness ==
    /\ Done
    /\ Method = "POST"
    /\ last.outcome = "fail"
    /\ last.calls = 1
    /\ DOMAIN last.before # {}
    /\ Answered(500, [error |-> "DynamoDB error: " \o ClientErrorMsg])

\* The answer is one that writes nothing: health, a read, a list, or a 400,
\* 404, 405.
WritesNothing ==
    \/ last.handler \in {"health", "get_user", "list_all_users", "none"}
    \/ last.resp.tag = "resp" /\ last.resp.statusCode \in {400, 404, 405}

\* C10: with invocations interleaved at their storage calls, each makes at
\* most one storage call (none when it answers health, 400 or 405); the table
\* and every response are those of the run that executes the invocations
\* whole, one after another, in the order of their storage calls; every
\* record is stored under its own user_id; and an invocation that answers
\* health, a read, a list, 400, 404 or 405 leaves the table as it found it.
C10_Serializable ==
    /\ table = serial
    /\ \A k \in DOMAIN table : table[k].user_id = k
    /\ Done =>
          /\ last.resp = last.serial
          /\ last.calls <= 1
          /\ (\/ last.handler \in {"health", "none"}
              \/ last.resp.tag = "resp" /\ last.resp.statusCode = 400)
             => last.calls = 0
          /\ WritesNothing => last.after = last.before

\* An update returned while a delete of the same id, entered before the
\* update's storage call, is stopped at its own storage call.
C10_Witness ==
    /\ Done
    /\ last.handler = "update_user"
    /\ StorageOk
    /\ \E j \in last.waiting :
          /\ pc[j] = "call"
          /\ req[j].op = "delete_item"
          /\ req[j].key = EventId
    /\ EventId \in DOMAIN table

=============================================================================
